---- MODULE Spec2Model ----
(***************************************************************************)
(* Model of zonal_stats_by_raster.py: the unique-code scanner              *)
(* (get_unique_values), the masking operator (mask_out_op) and the         *)
(* __main__ script that validates its arguments, expands the sample        *)
(* patterns, scans the landcover raster, and writes one CSV row per        *)
(* (sample, code) pair before removing its temporary working directory.    *)
(*                                                                         *)
(* Rasters are one-dimensional pixel sequences.  A landcover pixel is a    *)
(* record [k, v]: k = "num" with the integer v, k = "inf" with the sign    *)
(* v, or k = "nan"; sample pixels are records of the same shape.  A file   *)
(* name is a record [dir, stem, ext].                                      *)
(***************************************************************************)
EXTENDS Integers, Sequences, FiniteSets, TLC

VARIABLES
    pc,                      \* position of the script
    lc_path,                 \* args.landcover_raster_path
    lc_isfile,               \* os.path.isfile(args.landcover_raster_path)
    listing,                 \* sample files on disk, in directory order
    raster_pattern_list,     \* args.raster_pattern_list
    landcover,               \* pixels of the landcover raster
    block_size,              \* pixels per block handed out by iterblocks
    lulc_nodata,             \* nodata value of the landcover raster
    sample_raster_path_list, \* line 59
    unique_values,           \* line 70
    raster_opened,           \* TRUE once any raster has been opened
    working_dir,             \* "none", "exists" or "removed"
    workfiles,               \* rasters in the working directory: path -> pixels
    csv_created,             \* stats_table_<time>.csv exists
    csv_closed,              \* stats_table.close() has run
    csv,                     \* lines of the CSV file
    sample_index,            \* position of the outer loop (line 81)
    code_index,              \* position of the inner loop (line 93)
    aligned_raster_path_list,\* line 85
    warnings,                \* number of LOGGER.warning lines
    exception,               \* the error that ended the run, or "none"
    failed_at,               \* the library call that raised, or "none"
    exit_status,             \* "running", 0 or 1
    op_mask_data,            \* mask_out_op call: mask array after the call
    op_base_data,            \* mask_out_op call: base array after the call
    op_args,                 \* mask_out_op call: arguments as passed
    op_result                \* mask_out_op call: returned array

vars == <<pc, lc_path, lc_isfile, listing, raster_pattern_list, landcover,
          block_size, lulc_nodata, sample_raster_path_list, unique_values,
          raster_opened, working_dir, workfiles, csv_created, csv_closed, csv,
          sample_index, code_index, aligned_raster_path_list, warnings,
          exception, failed_at, exit_status,
          op_mask_data, op_base_data, op_args, op_result>>

inputs == <<lc_path, lc_isfile, listing, raster_pattern_list, landcover,
            block_size, lulc_nodata>>

mask_op_vars == <<op_mask_data, op_base_data, op_args, op_result>>

-----------------------------------------------------------------------------
(* Bounds of the model *)

MaxPatterns == 2
MaxLcPixels == 2
MaxScanPixels == 3
MaxOpPixels == 2

-----------------------------------------------------------------------------
(* Values *)

Num(n) == [k |-> "num", v |-> n]
PosInf == [k |-> "inf", v |-> 1]
NaN == [k |-> "nan", v |-> 0]

Abs(n) == IF n < 0 THEN -n ELSE n

Min2(a, b) == IF a <= b THEN a ELSE b

Max2(a, b) == IF a >= b THEN a ELSE b

SeqsUpTo(S, n) == UNION {[1..m -> S] : m \in 1..n}

Range(s) == {s[i] : i \in DOMAIN s}

RECURSIVE SumOver(_, _)
SumOver(s, i) == IF i = 0 THEN 0 ELSE s[i] + SumOver(s, i - 1)

Put(f, key, val) ==
    [x \in (DOMAIN f) \cup {key} |-> IF x = key THEN val ELSE f[x]]

-----------------------------------------------------------------------------
(* File names *)

File(d, s, e) == [dir |-> d, stem |-> s, ext |-> e]

\* os.path.basename(path)
basename(path) == [stem |-> path.stem, ext |-> path.ext]

\* os.path.join(working_dir, name)
WorkDirName == "zonal_stats_temp_workspace_"

join(name) == File(WorkDirName, name.stem, name.ext)

\* '%d' % mask_code
FormatD(code) == ToString(code.v)

\* os.path.join(working_dir, '%d.tif' % mask_code)
MaskRasterPath(code) == join([stem |-> FormatD(code), ext |-> "tif"])

\* [os.path.join(working_dir, os.path.basename(path)) for path in base list]
AlignedPaths(lc, sample) == <<join(basename(lc)), join(basename(sample))>>

-----------------------------------------------------------------------------
(* glob.glob *)

has_magic(pattern) == pattern.stem = "*"

fnmatch(pattern, f) ==
    /\ f.dir = pattern.dir
    /\ f.ext = pattern.ext
    /\ (has_magic(pattern) \/ f.stem = pattern.stem)

\* the files on disk that match, in directory order, each once
glob(pattern, dirlist) == SelectSeq(dirlist, LAMBDA f : fnmatch(pattern, f))

RECURSIVE DedupFrom(_, _, _)
DedupFrom(patterns, dirlist, i) ==
    IF i > Len(patterns) THEN <<>>
    ELSE LET rest == DedupFrom(patterns, dirlist, i + 1)
         IN  SelectSeq(glob(patterns[i], dirlist),
                       LAMBDA f : f \notin Range(rest)) \o rest

\* variant of ExpandPatterns that keeps one entry per matched file
ExpandPatterns_dedup(patterns, dirlist) == DedupFrom(patterns, dirlist, 1)

RECURSIVE ExpandFrom(_, _, _)
ExpandFrom(patterns, dirlist, i) ==
    IF i > Len(patterns) THEN <<>>
    ELSE glob(patterns[i], dirlist) \o ExpandFrom(patterns, dirlist, i + 1)

\* lines 59-61: the list is extended by every pattern's matches
ExpandPatterns(patterns, dirlist) == ExpandFrom(patterns, dirlist, 1)

-----------------------------------------------------------------------------
(* get_unique_values *)

\* numpy.isclose(a, b): |a - b| <= atol + rtol * |b|, atol = 1e-8 and
\* rtol = 1e-5, for an integer a and b; never true of inf or nan
isclose(a, nodata) ==
    /\ a.k = "num"
    /\ Abs(a.v - nodata) <= (1 + 1000 * Abs(nodata)) \div 100000000

\* iterblocks: block b holds pixels (b-1)*size+1 .. min(b*size, len)
NumBlocks(pixels, size) == (Len(pixels) + size - 1) \div size

Block(pixels, size, b) ==
    SubSeq(pixels, (b - 1) * size + 1, Min2(b * size, Len(pixels)))

\* set(numpy.unique(array[~numpy.isclose(array, nodata)])) for block b:
\* numpy.unique leaves one entry per value and one nan; the Python set then
\* holds one object per entry, and a nan object equals no other object, so
\* the nan of block b is an element of its own, [k |-> "nan", v |-> b]
BlockUnique(array, nodata, b) ==
    {IF x.k = "nan" THEN [k |-> "nan", v |-> b] ELSE x :
        x \in {y \in Range(array) : ~isclose(y, nodata)}}

RECURSIVE UniqueUpTo(_, _, _, _)
UniqueUpTo(pixels, size, nodata, b) ==
    IF b = 0 THEN {}
    ELSE UniqueUpTo(pixels, size, nodata, b - 1)
            \cup BlockUnique(Block(pixels, size, b), nodata, b)

\* variant of get_unique_values that assigns each block's set instead of
\* adding it, so that only the last block is kept
get_unique_values_lastblock(pixels, size, nodata) ==
    BlockUnique(Block(pixels, size, NumBlocks(pixels, size)), nodata,
                NumBlocks(pixels, size))

get_unique_values(pixels, size, nodata) ==
    UniqueUpTo(pixels, size, nodata, NumBlocks(pixels, size))

-----------------------------------------------------------------------------
(* mask_out_op *)

\* numpy ==: a nan equals nothing
ValueEq(a, b) == a.k # "nan" /\ b.k # "nan" /\ a = b

\* variant of mask_out_op whose result is the base array itself, not a copy
mask_out_op_inplace(mask_data, base_data, mask_code, base_nodata) ==
    LET filled == [p \in DOMAIN base_data |-> base_nodata]
        valid_mask == [p \in DOMAIN mask_data |-> ValueEq(mask_data[p], mask_code)]
    IN  [result |-> [p \in DOMAIN filled |->
                        IF valid_mask[p] THEN filled[p] ELSE filled[p]],
         mask_data |-> mask_data,
         base_data |-> filled]

\* returns the result array together with the two input arrays as they are
\* after the call
mask_out_op(mask_data, base_data, mask_code, base_nodata) ==
    LET empty == [p \in DOMAIN base_data |-> base_nodata]
        valid_mask == [p \in DOMAIN mask_data |-> ValueEq(mask_data[p], mask_code)]
    IN  [result |-> [p \in DOMAIN empty |->
                        IF valid_mask[p] THEN base_data[p] ELSE empty[p]],
         mask_data |-> mask_data,
         base_data |-> base_data]

-----------------------------------------------------------------------------
(* Raster library calls made by the script *)

\* get_raster_info(sample_raster_path): where the sample lies on the
\* landcover's pixel axis, its pixels and its nodata value
SampleInfo(path) ==
    IF path.stem = "a"
    THEN [offset |-> 0, data |-> <<Num(5), Num(7)>>, nodata |-> Num(-1)]
    ELSE [offset |-> 1, data |-> <<Num(-1), Num(9), Num(4)>>, nodata |-> Num(-1)]

\* the 'intersection' bounding box of the landcover and the sample
OverlapLo(pixels, info) == Max2(1, info.offset + 1)

OverlapHi(pixels, info) == Min2(Len(pixels), info.offset + Len(info.data))

Overlaps(pixels, info) == OverlapLo(pixels, info) <= OverlapHi(pixels, info)

\* align_and_resize_raster_stack: both rasters cut to the intersection and
\* written, in list order, to the target paths
AlignWrite(files, pixels, info, targets) ==
    LET lo == OverlapLo(pixels, info)
        hi == OverlapHi(pixels, info)
    IN  Put(Put(files, targets[1], SubSeq(pixels, lo, hi)),
            targets[2], SubSeq(info.data, lo - info.offset, hi - info.offset))

\* raster_calculator(..., mask_out_op, mask_raster_path, ...)
MaskWrite(files, targets, code, nodata, target) ==
    Put(files, target,
        mask_out_op(files[targets[1]], files[targets[2]], code, nodata).result)

\* band.GetStatistics(0, 1): min, max, mean and stdev of the pixels that are
\* not nodata; mean is <<sum, n>> and stdev is <<n*sumsq - sum^2, n^2>>
GetStatistics(pixels, nodata) ==
    LET valid == SelectSeq(pixels, LAMBDA x : x # nodata)
        n == Len(valid)
        vals == [i \in 1..n |-> valid[i].v]
        sum == SumOver(vals, n)
        sumsq == SumOver([i \in 1..n |-> vals[i] * vals[i]], n)
    IN  IF n = 0
        THEN [min |-> 0, max |-> 0, mean |-> <<0, 0>>, stdev |-> <<0, 0>>]
        ELSE [min |-> CHOOSE x \in Range(vals) : \A y \in Range(vals) : x <= y,
              max |-> CHOOSE x \in Range(vals) : \A y \in Range(vals) : x >= y,
              mean |-> <<sum, n>>,
              stdev |-> <<n * sumsq - sum * sum, n * n>>]

-----------------------------------------------------------------------------
(* The script *)

Header == <<"raster_filename", "lucode", "min", "max", "mean", "stdev">>

\* variant of sorted that yields the codes in descending order
RECURSIVE sorted_descending(_)
sorted_descending(S) ==
    IF S = {} THEN <<>>
    ELSE LET most == CHOOSE x \in S : \A y \in S : x.v >= y.v
         IN  <<most>> \o sorted_descending(S \ {most})

\* sorted(unique_values)
RECURSIVE sorted(_)
sorted(S) ==
    IF S = {} THEN <<>>
    ELSE LET least == CHOOSE x \in S : \A y \in S : x.v <= y.v
         IN  <<least>> \o sorted(S \ {least})

\* the codes the inner loop runs over (line 93)
CodeList == sorted(unique_values)

\* line 112: '%s,%d,%f,%f,%f,%f\n'
Row(sample, code, stats) ==
    [raster_filename |-> basename(sample), lucode |-> code.v,
     min |-> stats.min, max |-> stats.max,
     mean |-> stats.mean, stdev |-> stats.stdev]

Raise(kind, where) ==
    /\ pc' = IF kind = "ValueError" THEN "error" ELSE "crashed"
    /\ exception' = kind
    /\ failed_at' = where
    /\ exit_status' = 1

\* variant of CheckLandcover without the isfile test
CheckLandcover_unchecked ==
    /\ pc = "check_landcover"
    /\ pc' = "glob"
    /\ UNCHANGED <<inputs, sample_raster_path_list, unique_values,
                   raster_opened, working_dir, workfiles, csv_created,
                   csv_closed, csv, sample_index, code_index,
                   aligned_raster_path_list, warnings, exception, failed_at,
                   exit_status, mask_op_vars>>

\* lines 56-57
CheckLandcover ==
    /\ pc = "check_landcover"
    /\ IF ~lc_isfile
       THEN Raise("ValueError", "none")
       ELSE pc' = "glob" /\ UNCHANGED <<exception, failed_at, exit_status>>
    /\ UNCHANGED <<inputs, sample_raster_path_list, unique_values,
                   raster_opened, working_dir, workfiles, csv_created,
                   csv_closed, csv, sample_index, code_index,
                   aligned_raster_path_list, warnings, mask_op_vars>>

\* lines 59-61
Glob ==
    /\ pc = "glob"
    /\ sample_raster_path_list' = ExpandPatterns(raster_pattern_list, listing)
    /\ pc' = "check_samples"
    /\ UNCHANGED <<inputs, unique_values, raster_opened, working_dir,
                   workfiles, csv_created, csv_closed, csv, sample_index,
                   code_index, aligned_raster_path_list, warnings, exception,
                   failed_at, exit_status, mask_op_vars>>

\* variant of CheckSamples without the empty-list test
CheckSamples_unchecked ==
    /\ pc = "check_samples"
    /\ pc' = "scan"
    /\ UNCHANGED <<inputs, sample_raster_path_list, unique_values,
                   raster_opened, working_dir, workfiles, csv_created,
                   csv_closed, csv, sample_index, code_index,
                   aligned_raster_path_list, warnings, exception, failed_at,
                   exit_status, mask_op_vars>>

\* lines 63-65
CheckSamples ==
    /\ pc = "check_samples"
    /\ IF sample_raster_path_list = <<>>
       THEN Raise("ValueError", "none")
       ELSE pc' = "scan" /\ UNCHANGED <<exception, failed_at, exit_status>>
    /\ UNCHANGED <<inputs, sample_raster_path_list, unique_values,
                   raster_opened, working_dir, workfiles, csv_created,
                   csv_closed, csv, sample_index, code_index,
                   aligned_raster_path_list, warnings, mask_op_vars>>

\* lines 67-71
Scan ==
    /\ pc = "scan"
    /\ raster_opened' = TRUE
    /\ unique_values' = get_unique_values(landcover, block_size, lulc_nodata)
    /\ pc' = "setup"
    /\ UNCHANGED <<inputs, sample_raster_path_list, working_dir, workfiles,
                   csv_created, csv_closed, csv, sample_index, code_index,
                   aligned_raster_path_list, warnings, exception, failed_at,
                   exit_status, mask_op_vars>>

\* lines 68-70: a read of the landcover raster raises
ScanFails ==
    /\ pc = "scan"
    /\ raster_opened' = TRUE
    /\ Raise("LibraryError", "scan")
    /\ UNCHANGED <<inputs, sample_raster_path_list, unique_values,
                   working_dir, workfiles, csv_created, csv_closed, csv,
                   sample_index, code_index, aligned_raster_path_list,
                   warnings, mask_op_vars>>

\* lines 73-79
Setup ==
    /\ pc = "setup"
    /\ working_dir' = "exists"
    /\ csv_created' = TRUE
    /\ csv' = <<Header>>
    /\ sample_index' = 1
    /\ pc' = "align"
    /\ UNCHANGED <<inputs, sample_raster_path_list, unique_values,
                   raster_opened, workfiles, csv_closed, code_index,
                   aligned_raster_path_list, warnings, exception, failed_at,
                   exit_status, mask_op_vars>>

\* the position after the inner loop of sample i has ended
NextSample(i) ==
    /\ sample_index' = i + 1
    /\ pc' = IF i + 1 > Len(sample_raster_path_list) THEN "close" ELSE "align"

\* variant of Align that recomputes the code set from the aligned landcover
Align_rescan ==
    /\ pc = "align"
    /\ LET sample == sample_raster_path_list[sample_index]
           info == SampleInfo(sample)
           targets == AlignedPaths(lc_path, sample)
           written == AlignWrite(workfiles, landcover, info, targets)
           codes == get_unique_values(written[targets[1]], block_size,
                                      lulc_nodata)
       IN  /\ Overlaps(landcover, info)
           /\ aligned_raster_path_list' = targets
           /\ workfiles' = written
           /\ unique_values' = codes
           /\ IF codes = {}
              THEN NextSample(sample_index)
              ELSE pc' = "mask" /\ UNCHANGED sample_index
    /\ code_index' = 1
    /\ UNCHANGED <<inputs, sample_raster_path_list, raster_opened,
                   working_dir, csv_created, csv_closed, csv, warnings,
                   exception, failed_at, exit_status, mask_op_vars>>

\* lines 81-92
Align ==
    /\ pc = "align"
    /\ LET sample == sample_raster_path_list[sample_index]
           info == SampleInfo(sample)
           targets == AlignedPaths(lc_path, sample)
       IN  /\ Overlaps(landcover, info)
           /\ aligned_raster_path_list' = targets
           /\ workfiles' = AlignWrite(workfiles, landcover, info, targets)
    /\ code_index' = 1
    /\ IF CodeList = <<>>
       THEN NextSample(sample_index)
       ELSE pc' = "mask" /\ UNCHANGED sample_index
    /\ UNCHANGED <<inputs, sample_raster_path_list, unique_values,
                   raster_opened, working_dir, csv_created, csv_closed, csv,
                   warnings, exception, failed_at, exit_status, mask_op_vars>>

\* variant of AlignFails that logs the error and goes on with the next sample
AlignFails_isolated ==
    /\ pc = "align"
    /\ aligned_raster_path_list' =
          AlignedPaths(lc_path, sample_raster_path_list[sample_index])
    /\ failed_at' = "align"
    /\ NextSample(sample_index)
    /\ UNCHANGED <<inputs, sample_raster_path_list, unique_values,
                   raster_opened, working_dir, workfiles, csv_created,
                   csv_closed, csv, code_index, warnings, exception,
                   exit_status, mask_op_vars>>

\* lines 88-92: get_raster_info or align_and_resize_raster_stack raises
AlignFails ==
    /\ pc = "align"
    /\ aligned_raster_path_list' =
          AlignedPaths(lc_path, sample_raster_path_list[sample_index])
    /\ Raise("LibraryError", "align")
    /\ UNCHANGED <<inputs, sample_raster_path_list, unique_values,
                   raster_opened, working_dir, workfiles, csv_created,
                   csv_closed, csv, sample_index, code_index, warnings,
                   mask_op_vars>>

\* lines 93-115
MaskAndStats ==
    /\ pc = "mask"
    /\ LET sample == sample_raster_path_list[sample_index]
           mask_code == CodeList[code_index]
           nodata == SampleInfo(sample).nodata
           mask_raster_path == MaskRasterPath(mask_code)
           written == MaskWrite(workfiles, aligned_raster_path_list,
                                mask_code, nodata, mask_raster_path)
       IN  /\ workfiles' = written
           /\ csv' = Append(csv,
                  Row(sample, mask_code,
                      GetStatistics(written[mask_raster_path], nodata)))
    /\ IF code_index = Len(CodeList)
       THEN NextSample(sample_index) /\ UNCHANGED code_index
       ELSE code_index' = code_index + 1 /\ UNCHANGED <<pc, sample_index>>
    /\ UNCHANGED <<inputs, sample_raster_path_list, unique_values,
                   raster_opened, working_dir, csv_created, csv_closed,
                   aligned_raster_path_list, warnings, exception, failed_at,
                   exit_status, mask_op_vars>>

\* lines 99-105: raster_calculator raises
MaskFails ==
    /\ pc = "mask"
    /\ Raise("LibraryError", "mask")
    /\ UNCHANGED <<inputs, sample_raster_path_list, unique_values,
                   raster_opened, working_dir, workfiles, csv_created,
                   csv_closed, csv, sample_index, code_index,
                   aligned_raster_path_list, warnings, mask_op_vars>>

\* lines 106-109: OpenEx or GetStatistics raises, the mask raster is written
StatsFails ==
    /\ pc = "mask"
    /\ LET sample == sample_raster_path_list[sample_index]
           mask_code == CodeList[code_index]
       IN  workfiles' = MaskWrite(workfiles, aligned_raster_path_list,
                                  mask_code, SampleInfo(sample).nodata,
                                  MaskRasterPath(mask_code))
    /\ Raise("LibraryError", "stats")
    /\ UNCHANGED <<inputs, sample_raster_path_list, unique_values,
                   raster_opened, working_dir, csv_created, csv_closed, csv,
                   sample_index, code_index, aligned_raster_path_list,
                   warnings, mask_op_vars>>

\* line 116
Close ==
    /\ pc = "close"
    /\ csv_closed' = TRUE
    /\ pc' = "cleanup"
    /\ UNCHANGED <<inputs, sample_raster_path_list, unique_values,
                   raster_opened, working_dir, workfiles, csv_created, csv,
                   sample_index, code_index, aligned_raster_path_list,
                   warnings, exception, failed_at, exit_status, mask_op_vars>>

\* lines 117-118: shutil.rmtree succeeds
Cleanup ==
    /\ pc = "cleanup"
    /\ working_dir' = "removed"
    /\ workfiles' = <<>>
    /\ pc' = "done"
    /\ exit_status' = 0
    /\ UNCHANGED <<inputs, sample_raster_path_list, unique_values,
                   raster_opened, csv_created, csv_closed, csv, sample_index,
                   code_index, aligned_raster_path_list, warnings, exception,
                   failed_at, mask_op_vars>>

\* variant of CleanupFails in which the OSError is not caught
CleanupFails_uncaught ==
    /\ pc = "cleanup"
    /\ Raise("OSError", "rmtree")
    /\ UNCHANGED <<inputs, sample_raster_path_list, unique_values,
                   raster_opened, working_dir, workfiles, csv_created,
                   csv_closed, csv, sample_index, code_index,
                   aligned_raster_path_list, warnings, mask_op_vars>>

\* lines 117-120: shutil.rmtree raises OSError
CleanupFails ==
    /\ pc = "cleanup"
    /\ warnings' = warnings + 1
    /\ pc' = "done"
    /\ exit_status' = 0
    /\ UNCHANGED <<inputs, sample_raster_path_list, unique_values,
                   raster_opened, working_dir, workfiles, csv_created,
                   csv_closed, csv, sample_index, code_index,
                   aligned_raster_path_list, exception, failed_at,
                   mask_op_vars>>

-----------------------------------------------------------------------------
(* The run of the script *)

LandcoverPaths == {File("lc", "1", "tif"), File("lc", "a", "tif")}

SampleFiles == {File("s", "a", "tif"), File("s", "b", "tif")}

PatternChoices == {File("s", "a", "tif"), File("s", "*", "tif")}

\* directory listings: the sample files on disk, each once, in any order
Listings ==
    {<<>>} \cup {s \in SeqsUpTo(SampleFiles, Cardinality(SampleFiles)) :
                    \A i, j \in DOMAIN s : s[i] = s[j] => i = j}

LcNodata == -9999

LcPixelChoices == {Num(1), Num(2), Num(LcNodata)}

Idle ==
    /\ sample_raster_path_list = <<>>
    /\ unique_values = {}
    /\ raster_opened = FALSE
    /\ working_dir = "none"
    /\ workfiles = <<>>
    /\ csv_created = FALSE
    /\ csv_closed = FALSE
    /\ csv = <<>>
    /\ sample_index = 0
    /\ code_index = 0
    /\ aligned_raster_path_list = <<>>
    /\ warnings = 0
    /\ exception = "none"
    /\ failed_at = "none"
    /\ exit_status = "running"

NoMaskCall ==
    /\ op_mask_data = <<>>
    /\ op_base_data = <<>>
    /\ op_args = <<>>
    /\ op_result = <<>>

Init ==
    /\ pc = "check_landcover"
    /\ lc_path \in LandcoverPaths
    /\ lc_isfile \in BOOLEAN
    /\ listing \in Listings
    /\ raster_pattern_list \in SeqsUpTo(PatternChoices, MaxPatterns)
    /\ landcover \in SeqsUpTo(LcPixelChoices, MaxLcPixels)
    /\ block_size \in 1..Len(landcover)
    /\ lulc_nodata = LcNodata
    /\ Idle
    /\ NoMaskCall

Next ==
    \/ CheckLandcover
    \/ Glob
    \/ CheckSamples
    \/ Scan
    \/ ScanFails
    \/ Setup
    \/ Align
    \/ AlignFails
    \/ MaskAndStats
    \/ MaskFails
    \/ StatsFails
    \/ Close
    \/ Cleanup
    \/ CleanupFails

Spec == Init /\ [][Next]_vars

-----------------------------------------------------------------------------
(* get_unique_values on rasters that also hold near-nodata, infinite and   *)
(* nan pixels: the run starts at line 67 with the arguments already        *)
(* validated.                                                              *)

ScanNodata == 100000

ScanPixelChoices ==
    {Num(1), Num(2), Num(ScanNodata), Num(ScanNodata + 1), PosInf, NaN}

UniqueInit ==
    /\ pc = "scan"
    /\ lc_path = File("lc", "a", "tif")
    /\ lc_isfile = TRUE
    /\ listing = <<File("s", "b", "tif")>>
    /\ raster_pattern_list = <<File("s", "b", "tif")>>
    /\ landcover \in SeqsUpTo(ScanPixelChoices, MaxScanPixels)
    /\ block_size \in 1..Len(landcover)
    /\ lulc_nodata = ScanNodata
    /\ sample_raster_path_list = <<File("s", "b", "tif")>>
    /\ unique_values = {}
    /\ raster_opened = FALSE
    /\ working_dir = "none"
    /\ workfiles = <<>>
    /\ csv_created = FALSE
    /\ csv_closed = FALSE
    /\ csv = <<>>
    /\ sample_index = 0
    /\ code_index = 0
    /\ aligned_raster_path_list = <<>>
    /\ warnings = 0
    /\ exception = "none"
    /\ failed_at = "none"
    /\ exit_status = "running"
    /\ NoMaskCall

UniqueNext == Scan

UniqueSpec == UniqueInit /\ [][UniqueNext]_vars

-----------------------------------------------------------------------------
(* mask_out_op called on small arrays of equal shape *)

OpMaskChoices == {Num(1), Num(2), NaN}

OpBaseChoices == {Num(5), Num(7), Num(-1)}

OpCodeChoices == {Num(1), Num(2)}

OpNodataChoices == {Num(-1)}

MaskInit ==
    /\ pc = "mask_call"
    /\ \E n \in 1..MaxOpPixels :
          op_args \in [mask_data : [1..n -> OpMaskChoices],
                       base_data : [1..n -> OpBaseChoices],
                       mask_code : OpCodeChoices,
                       base_nodata : OpNodataChoices]
    /\ op_mask_data = op_args.mask_data
    /\ op_base_data = op_args.base_data
    /\ op_result = <<>>
    /\ lc_path = File("lc", "a", "tif")
    /\ lc_isfile = TRUE
    /\ listing = <<>>
    /\ raster_pattern_list = <<>>
    /\ landcover = <<>>
    /\ block_size = 1
    /\ lulc_nodata = LcNodata
    /\ Idle

CallMaskOp ==
    /\ pc = "mask_call"
    /\ LET after == mask_out_op(op_mask_data, op_base_data,
                                op_args.mask_code, op_args.base_nodata)
       IN  /\ op_result' = after.result
           /\ op_mask_data' = after.mask_data
           /\ op_base_data' = after.base_data
    /\ pc' = "mask_return"
    /\ UNCHANGED <<inputs, op_args, sample_raster_path_list, unique_values,
                   raster_opened, working_dir, workfiles, csv_created,
                   csv_closed, csv, sample_index, code_index,
                   aligned_raster_path_list, warnings, exception, failed_at,
                   exit_status>>

MaskNext == CallMaskOp

MaskSpec == MaskInit /\ [][MaskNext]_vars

-----------------------------------------------------------------------------
(* Properties *)

\* the distinct non-nodata pixel values of the landcover raster
LandcoverCodes == {x \in Range(landcover) : x.v # lulc_nodata}

N == Cardinality(LandcoverCodes)

M == Len(sample_raster_path_list)

\* the j-th smallest landcover code
CodeAt(j) ==
    CHOOSE x \in LandcoverCodes :
        Cardinality({y \in LandcoverCodes : y.v < x.v}) = j - 1

CountIn(s, x) == Cardinality({i \in DOMAIN s : s[i] = x})

\* the data row of the k-th (sample, code) pair in sample-major order
PairRow(k) == csv[1 + k]

PairSample(k) == sample_raster_path_list[((k - 1) \div N) + 1]

PairCode(k) == CodeAt(((k - 1) % N) + 1)

RowsArePairs(count) ==
    /\ Len(csv) = 1 + count
    /\ csv[1] = Header
    /\ \A k \in 1..count :
          /\ PairRow(k).raster_filename = basename(PairSample(k))
          /\ PairRow(k).lucode = PairCode(k).v

\* C1: a run that ends without a failed library call leaves a CSV of one
\* header line and N*M data rows, sample by sample in list order and, within
\* a sample, in strictly ascending order of code.
C1_RowsSampleMajorAscending ==
    pc = "done" =>
        /\ csv_created
        /\ RowsArePairs(N * M)
        /\ \A i \in 1..M : \A j \in 1..(N - 1) :
              csv[1 + (i - 1) * N + j].lucode
                  < csv[1 + (i - 1) * N + j + 1].lucode

C1_Witness ==
    /\ pc = "done"
    /\ N = 2
    /\ M >= 2
    /\ sample_raster_path_list[1] # sample_raster_path_list[2]

\* C2: when the landcover path is not a file the run ends in a ValueError
\* with no raster opened, no working directory and no CSV file.
C2_MissingLandcoverStopsEarly ==
    ~lc_isfile =>
        /\ pc \in {"check_landcover", "error"}
        /\ pc = "error" => exception = "ValueError" /\ exit_status = 1
        /\ ~raster_opened
        /\ working_dir = "none"
        /\ ~csv_created

C2_Witness == ~lc_isfile /\ pc = "error" /\ listing # <<>>

\* C3: when the landcover path is a file and no file on disk matches any
\* pattern, the run ends in a ValueError with no raster opened, no working
\* directory and no CSV file.
NoPatternMatches ==
    \A k \in DOMAIN raster_pattern_list : \A f \in Range(listing) :
        ~fnmatch(raster_pattern_list[k], f)

C3_NoSamplesStopsEarly ==
    (lc_isfile /\ NoPatternMatches) =>
        /\ pc \in {"check_landcover", "glob", "check_samples", "error"}
        /\ pc = "error" => exception = "ValueError" /\ exit_status = 1
        /\ ~raster_opened
        /\ working_dir = "none"
        /\ ~csv_created

C3_Witness ==
    /\ lc_isfile
    /\ NoPatternMatches
    /\ pc = "error"
    /\ listing # <<>>

\* C4: the removal of the working directory is attempted only after the CSV
\* holds the header and all N*M rows and is closed; whether or not it
\* fails the run ends normally with exit status 0 and the CSV untouched, and
\* a failed removal logs exactly one warning.
C4_CleanupFailureIsHarmless ==
    [][pc = "cleanup" =>
          /\ csv_closed
          /\ RowsArePairs(N * M)
          /\ warnings = 0
          /\ pc' = "done"
          /\ exit_status' = 0
          /\ exception' = "none"
          /\ csv' = csv
          /\ csv_closed'
          /\ working_dir' = "exists" => warnings' = 1]_vars

C4_Witness ==
    /\ pc = "done"
    /\ working_dir = "exists"
    /\ warnings = 1
    /\ exit_status = 0
    /\ Len(csv) >= 3

\* C5 as stated: a file appears at most once in the sample list, and so has
\* one row per code.
C5_Deduplicated ==
    /\ \A i, j \in DOMAIN sample_raster_path_list :
          sample_raster_path_list[i] = sample_raster_path_list[j] => i = j
    /\ pc = "done" =>
          \A f \in Range(sample_raster_path_list) :
              Cardinality({k \in 2..Len(csv) :
                  csv[k].raster_filename = basename(f)}) = N

\* the number of patterns that match the file f on disk
MatchingPatterns(f) ==
    Cardinality({k \in DOMAIN raster_pattern_list :
        f \in Range(listing) /\ fnmatch(raster_pattern_list[k], f)})

\* C5 amended: a file appears in the sample list once per pattern that
\* matches it, and a finished run holds N rows for each of its appearances.
C5_OncePerMatchingPattern ==
    /\ (lc_isfile /\ pc \notin {"check_landcover", "glob"}) =>
          \A f \in SampleFiles :
              CountIn(sample_raster_path_list, f) = MatchingPatterns(f)
    /\ pc = "done" =>
          \A f \in SampleFiles :
              Cardinality({k \in 2..Len(csv) :
                  csv[k].raster_filename = basename(f)})
                  = N * MatchingPatterns(f)

C5_Witness ==
    /\ pc = "done"
    /\ N >= 1
    /\ \E f \in SampleFiles :
          /\ MatchingPatterns(f) = 2
          /\ Cardinality({k \in 2..Len(csv) :
                 csv[k].raster_filename = basename(f)}) = 2 * N

\* C6 as stated: for a raster with a pixel that is not nodata, the scan
\* returns the distinct finite pixel values that are not close to nodata,
\* and returns the same set for every block size.
Finite(x) == x.k = "num"

PairsCompleted ==
    (sample_index - 1) * N
        + (IF failed_at = "align" THEN 0 ELSE code_index - 1)

C8_LibraryErrorEndsRun ==
    /\ failed_at # "none" => pc = "crashed"
    /\ (pc = "crashed" /\ failed_at \in {"align", "mask", "stats"}) =>
          /\ exit_status = 1
          /\ ~ENABLED Next
          /\ RowsArePairs(PairsCompleted)
          /\ PairsCompleted < N * M \/ N = 0
          /\ working_dir = "exists"

C8_Witness ==
    /\ pc = "crashed"
    /\ failed_at = "stats"
    /\ sample_index = 2
    /\ code_index = 2
    /\ Len(csv) = 1 + N + 1
    /\ M >= 3

\* C9: the code set is assigned once, by the scan of the unaligned
\* landcover raster before anything is aligned, and never changes
\* afterwards; each sample that finishes has added one row for every code
\* of that set, whatever its aligned landcover holds.
C9_CodeSetFixed ==
    [][/\ pc # "scan" => unique_values' = unique_values
       /\ (pc = "scan" /\ pc' = "setup") =>
             /\ unique_values' = LandcoverCodes
             /\ workfiles = <<>>
             /\ aligned_raster_path_list = <<>>
       /\ (pc \in {"align", "mask"} /\ sample_index' = sample_index + 1) =>
             Len(csv') = 1 + sample_index * Cardinality(unique_values)
       /\ (pc = "mask" /\ pc' # "crashed") =>
             /\ Len(csv') = Len(csv) + 1
             /\ csv'[Len(csv')].lucode = CodeAt(code_index).v]_vars

\* a finished sample with a row for a code that its aligned landcover,
\* still on disk, does not hold
C9_Witness ==
    /\ pc = "close"
    /\ aligned_raster_path_list[1] # aligned_raster_path_list[2]
    /\ \A c \in unique_values :
          MaskRasterPath(c) # aligned_raster_path_list[1]
    /\ \E k \in 2..Len(csv) :
          /\ k > 1 + (M - 1) * N
          /\ Num(csv[k].lucode) \notin
                Range(workfiles[aligned_raster_path_list[1]])
          /\ csv[k].mean = <<0, 0>>

\* C10 as stated: while a sample is being masked its two aligned rasters
\* are distinct files, no mask raster of a code is one of them, and the
\* mask rasters of distinct codes are distinct files.
C10_TempPathsDistinct ==
    pc = "mask" =>
        /\ aligned_raster_path_list[1] # aligned_raster_path_list[2]
        /\ \A c \in unique_values :
              MaskRasterPath(c) \notin Range(aligned_raster_path_list)
        /\ \A c, d \in unique_values :
              c # d => MaskRasterPath(c) # MaskRasterPath(d)

====
